---- MODULE Spec2Model ----
(***************************************************************************)
(* UG-Ripper (ug-ripper.py): playlist-to-document batch scraper.           *)
(* The run is one sequential process: module start-up, validate_config,    *)
(* the authentication loop of __main__ (get_credentials / login), then     *)
(* fetch_songs (parse_song_links, one download_file per link), driver.quit *)
(* and the failure report.  The browser, the pages and the emitters are    *)
(* the environment: what they answer is drawn from small sets.             *)
(* dumb_docx_space_fixer is a pure function, checked under SpecFix.        *)
(***************************************************************************)
EXTENDS Integers, Sequences, FiniteSets, TLC

VARIABLES
    config,        \* the sections and options config.ini holds
    docx,          \* value of [Download] docx where the option is present
    pc,            \* position of the run in the script
    err,           \* uncaught exception that ended the run, "none" otherwise
    username,      \* where __main__ took the credentials from
    prompts,       \* calls of get_credentials so far
    attempts,      \* calls of login so far (each opens one browsing context)
    driver,        \* value of `driver` in __main__: None or a context id
    openCtx,       \* browsing contexts opened and not yet quit
    loginObs,      \* what the login page showed in the last login call
    playlist,      \* what the playlist page showed in parse_song_links
    song_urls,     \* fetch_songs: the list parse_song_links returned
    idx,           \* fetch_songs: loop iterations completed
    calls,         \* download_file calls made (returned or raised)
    failed_songs,  \* the module-level failure list
    emitted,       \* references whose emitter wrote its file, in order
    last,          \* what the last download_file call met and how it ended
    files,         \* destination paths that hold a file written by this run
    discoveries,   \* calls of parse_song_links so far
    text,          \* dumb_docx_space_fixer: the input text
    fixed,         \* dumb_docx_space_fixer(text)
    refixed,       \* dumb_docx_space_fixer(fixed)
    fpc,           \* position of the cleanup check
    markup,        \* preprocess_html: the input markup
    dom,           \* the tree of the first pass, just before soup.prettify()
    clean,         \* preprocess_html(markup)
    reclean,       \* preprocess_html(clean)
    spc            \* position of the sanitizer check

runVars == <<config, docx, pc, err, username, prompts, attempts, driver, openCtx,
             loginObs, playlist, song_urls, idx, calls, failed_songs, emitted, last,
             files, discoveries>>
fixVars == <<text, fixed, refixed, fpc>>
sanVars == <<markup, dom, clean, reclean, spc>>
vars == <<runVars, fixVars, sanVars>>

\* ---------------------------------------------------------------- bounds
MaxMissing == 2     \* sections/options removed from a complete config.ini
MaxAttempts == 2    \* login calls explored
MaxLinks == 2       \* anchors on the playlist page
MaxPieces == 4      \* pieces an input text of the cleanup is built from
MaxTokens == 4      \* tags and characters of an input markup of the sanitizer

\* Python None; a browsing context is named <<n>>, n the login call that opened it
None == <<>>

\* ---------------------------------------------------------- configuration
AllKeys == {"Download", "Download.location", "Download.docx",
            "PDFKit", "PDFKit.executable_path",
            "URLs", "URLs.login_url", "URLs.playlist_url",
            "Authentication", "Authentication.Username", "Authentication.Password"}

SectionOf(k) ==
    CASE k \in {"Download", "Download.location", "Download.docx"} -> "Download"
      [] k \in {"PDFKit", "PDFKit.executable_path"} -> "PDFKit"
      [] k \in {"URLs", "URLs.login_url", "URLs.playlist_url"} -> "URLs"
      [] OTHER -> "Authentication"

\* a config.ini: a complete one with up to MaxMissing sections/options deleted
\* (deleting a section deletes its options)
Configs ==
    { {k \in AllKeys : k \notin R /\ SectionOf(k) \notin R} :
        R \in {S \in SUBSET AllKeys : Cardinality(S) <= MaxMissing} }

has_section(cfg, s) == s \in cfg
has_option(cfg, s, o) == s \in cfg /\ (s \o "." \o o) \in cfg

\* config.get(section, option) without fallback: the exception it raises
ConfigGetError(cfg, s, o) ==
    IF ~has_section(cfg, s) THEN "NoSectionError"
    ELSE IF ~has_option(cfg, s, o) THEN "NoOptionError"
    ELSE "none"

required_sections ==
    << [section |-> "Download", options |-> <<"location">>],
       [section |-> "PDFKit",   options |-> <<"executable_path">>],
       [section |-> "URLs",     options |-> <<"login_url", "playlist_url">>] >>

\* the options of one required section, in order: first missing one raises
RECURSIVE CheckOptions(_, _, _, _)
CheckOptions(cfg, s, opts, j) ==
    IF j > Len(opts) THEN "none"
    ELSE IF ~has_option(cfg, s, opts[j]) THEN "ValueError"
    ELSE CheckOptions(cfg, s, opts, j + 1)

RECURSIVE CheckSections(_, _)
CheckSections(cfg, i) ==
    IF i > Len(required_sections) THEN "none"
    ELSE IF ~has_section(cfg, required_sections[i].section) THEN "ValueError"
    ELSE IF CheckOptions(cfg, required_sections[i].section,
                         required_sections[i].options, 1) # "none" THEN "ValueError"
    ELSE CheckSections(cfg, i + 1)

\* validate_config(config): "ValueError" when it raises, "none" when it returns
validate_config(cfg) == CheckSections(cfg, 1)

\* __main__: the stored credentials are used when all three are present
StoredCredentials(cfg) ==
    /\ has_section(cfg, "Authentication")
    /\ has_option(cfg, "Authentication", "Username")
    /\ has_option(cfg, "Authentication", "Password")

NoPage == [container |-> FALSE, title |-> FALSE, raw |-> <<>>, body |-> FALSE,
           emit |-> FALSE]
NoLast == [url |-> <<>>, page |-> NoPage, exc |-> "none", result |-> "none",
           title |-> <<>>, path |-> <<>>, wrote |-> FALSE]
NoLogin == [button |-> FALSE, username |-> FALSE, password |-> FALSE,
            cookieWait |-> FALSE, cookieCheck |-> FALSE]
NoPlaylist == [loaded |-> FALSE, anchors |-> <<>>]

RunInit ==
    /\ config \in Configs
    /\ docx \in (IF "Download.docx" \in config THEN BOOLEAN ELSE {FALSE})
    /\ pc = "start"
    /\ err = "none"
    /\ username = "unset"
    /\ prompts = 0
    /\ attempts = 0
    /\ driver = None
    /\ openCtx = {}
    /\ loginObs = NoLogin
    /\ playlist = NoPlaylist
    /\ song_urls = <<>>
    /\ idx = 0
    /\ calls = 0
    /\ failed_songs = <<>>
    /\ emitted = <<>>
    /\ last = NoLast
    /\ files = {}
    /\ discoveries = 0

FixIdle ==
    /\ text = <<>>
    /\ fixed = <<>>
    /\ refixed = <<>>
    /\ fpc = "off"

\* an element or a string of a parsed tree: a string has tag "text" and its
\* characters as kids; id is the position of the element's start tag
Root == [tag |-> "root", id |-> 0, cls |-> FALSE, kids |-> <<>>]

SanIdle ==
    /\ markup = <<>>
    /\ dom = Root
    /\ clean = <<>>
    /\ reclean = <<>>
    /\ spc = "off"

Init == RunInit /\ FixIdle /\ SanIdle

\* ------------------------------------------------------------- start-up
\* module level, lines 46-61: the converter path is read without fallback
ModuleStart ==
    /\ pc = "start"
    /\ LET e == ConfigGetError(config, "PDFKit", "executable_path") IN
        /\ err' = e
        /\ pc' = IF e = "none" THEN "validate" ELSE "crashed"
    /\ failed_songs' = <<>>
    /\ UNCHANGED <<config, docx, username, prompts, attempts, driver, openCtx,
                   loginObs, playlist, song_urls, idx, calls, emitted, last>>
    /\ UNCHANGED <<files, discoveries>>
    /\ UNCHANGED fixVars
    /\ UNCHANGED sanVars

\* __main__, line 329
Validate ==
    /\ pc = "validate"
    /\ LET e == validate_config(config) IN
        /\ err' = e
        /\ pc' = IF e = "none" THEN "creds" ELSE "crashed"
    /\ UNCHANGED <<config, docx, username, prompts, attempts, driver, openCtx,
                   loginObs, playlist, song_urls, idx, calls, failed_songs,
                   emitted, last>>
    /\ UNCHANGED <<files, discoveries>>
    /\ UNCHANGED fixVars
    /\ UNCHANGED sanVars

\* --------------------------------------------------------- authentication
\* __main__, lines 332-336: stored credentials, else get_credentials() prompts
Credentials ==
    /\ pc = "creds"
    /\ attempts < MaxAttempts
    /\ IF StoredCredentials(config)
         THEN /\ username' = "stored"
              /\ prompts' = prompts
         ELSE /\ username' = "typed"
              /\ prompts' = prompts + 1
    /\ pc' = "login"
    /\ UNCHANGED <<config, docx, err, attempts, driver, openCtx, loginObs, playlist,
                   song_urls, idx, calls, failed_songs, emitted, last>>
    /\ UNCHANGED <<files, discoveries>>
    /\ UNCHANGED fixVars
    /\ UNCHANGED sanVars

\* what the login page can show: the three controls and the identity cookie,
\* at the bounded wait (line 183) and at the check after it (line 185)
LoginPages == [button : BOOLEAN, username : BOOLEAN, password : BOOLEAN,
               cookieWait : BOOLEAN, cookieCheck : BOOLEAN]

\* login, lines 172-183: a WebDriverWait that runs out raises TimeoutException
LoginException(o) ==
    IF ~o.button THEN "TimeoutException"
    ELSE IF ~o.username THEN "TimeoutException"
    ELSE IF ~o.password THEN "TimeoutException"
    ELSE IF ~o.cookieWait THEN "TimeoutException"
    ELSE "none"

\* variant: the check of line 185 left out
LoginReturnsDriver_NoRecheck(o) == LoginException(o) = "none"

\* login, lines 185-191: the driver is returned when the cookie is there
LoginReturnsDriver(o) == LoginException(o) = "none" /\ o.cookieCheck

\* variant: no driver.quit() in the TimeoutException handler
LoginQuits_CookieOnly(o) == LoginException(o) = "none" /\ ~o.cookieCheck

\* login, lines 187 and 194: driver.quit() on both failure paths
LoginQuits(o) ==
    \/ LoginException(o) = "TimeoutException"
    \/ (LoginException(o) = "none" /\ ~o.cookieCheck)

\* variant: the credentials taken once, outside the while loop
AfterLogin_SkipCredentials(drv) == IF drv # None THEN "fetch" ELSE "login"

\* variant: fetch_songs called without the `if driver` test
AfterLogin_AlwaysFetch(drv) == "fetch"

\* __main__, lines 339-344: fetch on a driver, otherwise go round the loop
AfterLogin(drv) == IF drv # None THEN "fetch" ELSE "creds"

\* login(username, password) and the `if driver` of __main__
Login ==
    /\ pc = "login"
    /\ \E o \in LoginPages :
        LET id == <<attempts + 1>>
            drv == IF LoginReturnsDriver(o) THEN id ELSE None
        IN  /\ attempts' = attempts + 1
            /\ loginObs' = o
            /\ openCtx' = IF LoginQuits(o) THEN openCtx ELSE openCtx \cup {id}
            /\ driver' = drv
            /\ pc' = AfterLogin(drv)
    /\ UNCHANGED <<config, docx, err, username, prompts, playlist, song_urls, idx,
                   calls, failed_songs, emitted, last>>
    /\ UNCHANGED <<files, discoveries>>
    /\ UNCHANGED fixVars
    /\ UNCHANGED sanVars

\* ------------------------------------------------------------- discovery
\* hrefs are sequences of URL pieces; the two literals of line 217
TabPattern == <<"tabs.ultimate-guitar.com/", "tab">>
UserTabPattern == <<"https://", "tabs.ultimate-guitar.com/", "user/", "tab">>

Hrefs == { <<"https://", "tabs.ultimate-guitar.com/", "tab", "/a">>,
           <<"https://", "tabs.ultimate-guitar.com/", "user/", "tab", "/b">>,
           <<"http://", "tabs.ultimate-guitar.com/", "user/", "tab", "/b">>,
           <<"https://", "example.com/">>,
           <<"https://", "example.com/", "?u=", "tabs.ultimate-guitar.com/", "tab">> }

\* an <a> element: with an href attribute or without one
Anchors == {[has_href |-> TRUE, href |-> h] : h \in Hrefs}
             \cup {[has_href |-> FALSE, href |-> <<>>]}

\* the playlist page: its anchors, and whether one was present within the
\* 10 s wait of line 214 (no anchor at all means the wait runs out)
PlaylistPages ==
    {p \in [loaded : BOOLEAN,
            anchors : UNION {[1..n -> Anchors] : n \in 0..MaxLinks}] :
        p.loaded => Len(p.anchors) >= 1}

\* Python `pat in s` from position i on: does pat occur in s
RECURSIVE OccursFrom(_, _, _)
OccursFrom(pat, s, i) ==
    IF i + Len(pat) - 1 > Len(s) THEN FALSE
    ELSE IF SubSeq(s, i, i + Len(pat) - 1) = pat THEN TRUE
    ELSE OccursFrom(pat, s, i + 1)

\* variant: the user-tab literal left out of the condition
LinkFilter_TabOnly(href) == OccursFrom(TabPattern, href, 1)

\* the condition of the list comprehension, line 217
LinkFilter(href) == OccursFrom(TabPattern, href, 1) \/ OccursFrom(UserTabPattern, href, 1)

\* lines 216-217: find_all('a', href=True), then the comprehension, in order
RECURSIVE CollectLinks(_, _)
CollectLinks(anchors, i) ==
    IF i > Len(anchors) THEN <<>>
    ELSE IF anchors[i].has_href /\ LinkFilter(anchors[i].href)
         THEN <<anchors[i].href>> \o CollectLinks(anchors, i + 1)
         ELSE CollectLinks(anchors, i + 1)

\* variant: the page source parsed although the wait ran out
parse_song_links_NoTimeout(p) == CollectLinks(p.anchors, 1)

\* parse_song_links(driver): the TimeoutException of the wait gives []
parse_song_links(p) == IF p.loaded THEN CollectLinks(p.anchors, 1) ELSE <<>>

\* fetch_songs, line 321
ParseSongLinks ==
    /\ pc = "fetch"
    /\ \E p \in PlaylistPages :
        /\ playlist' = p
        /\ song_urls' = parse_song_links(p)
    /\ idx' = 0
    /\ pc' = "loop"
    /\ UNCHANGED <<config, docx, err, username, prompts, attempts, driver, openCtx,
                   loginObs, calls, failed_songs, emitted, last>>
    /\ discoveries' = discoveries + 1
    /\ UNCHANGED files
    /\ UNCHANGED fixVars
    /\ UNCHANGED sanVars

\* ------------------------------------------------------------ extraction
\* raw header texts of a tab page: characters SP (blank), "/", "\\", "_", letters
RawTitles == { <<"a">>, <<"a", "/", "b">>, <<"a", "_", "b">>, <<"a", "\\", "b">>,
               <<"SP", "a", "SP">> }

\* what one tab page and the emitter can answer.  download_file looks for the
\* container, the title and the body in this order and stops at the first
\* one missing, so a region after a missing one is never seen and is left
\* blank here; whether the emitter would succeed does not depend on the page
TabPages ==
    {o \in [container : BOOLEAN, title : BOOLEAN, raw : RawTitles \cup {<<>>},
            body : BOOLEAN, emit : BOOLEAN] :
        /\ (o.title <=> o.raw # <<>>)
        /\ (o.title => o.container)
        /\ (o.body => o.title)}

\* str.strip(): blanks removed at both ends
RECURSIVE LStrip(_)
LStrip(t) == IF t # <<>> /\ Head(t) = "SP" THEN LStrip(Tail(t)) ELSE t

RECURSIVE RStrip(_)
RStrip(t) ==
    IF t # <<>> /\ t[Len(t)] = "SP" THEN RStrip(SubSeq(t, 1, Len(t) - 1)) ELSE t

strip(t) == RStrip(LStrip(t))

\* str.replace('/', '_')
replace_slash(t) == [k \in DOMAIN t |-> IF t[k] = "/" THEN "_" ELSE t[k]]

\* line 261: song_title
song_title(raw) == replace_slash(strip(raw))

\* lines 298 and 303: f"{download_location}\\{song_title}.docx" / ".pdf"
DestinationPath(title, isDocx) ==
    <<"DIR", "\\">> \o title \o <<IF isDocx THEN ".docx" ELSE ".pdf">>

\* variant: a file already there is kept and the new one gets another name
WriteFile_KeepOld(fs, path) ==
    IF path \in fs THEN fs \cup {path \o <<"(1)">>} ELSE fs \cup {path}

\* doc.save / pdfkit.from_string: the file at the path is created or overwritten
WriteFile(fs, path) == fs \cup {path}

\* variant: the body region looked up after the emitter has run
Steps_LookupAfterEmit == <<"wait_container", "find_title", "getboolean", "emit", "find_body">>

\* the steps of the try block of download_file, lines 251-303, in order
Steps == <<"wait_container", "find_title", "find_body", "getboolean", "emit">>

\* the exception step s raises on page o, "none" when it passes
StepException(cfg, o, s) ==
    CASE s = "wait_container" -> IF o.container THEN "none" ELSE "TimeoutException"
      [] s = "find_title" -> IF o.title THEN "none" ELSE "NoSuchElementException"
      [] s = "find_body" -> IF o.body THEN "none" ELSE "NoSuchElementException"
      [] s = "getboolean" -> ConfigGetError(cfg, "Download", "docx")
      [] s = "emit" -> IF o.emit THEN "none" ELSE "OSError"

\* the try block from step i on: the first exception, and whether the emitter
\* has written its file by then
RECURSIVE RunSteps(_, _, _, _)
RunSteps(cfg, o, i, wrote) ==
    IF i > Len(Steps) THEN [exc |-> "none", wrote |-> wrote]
    ELSE LET e == StepException(cfg, o, Steps[i]) IN
         IF e # "none" THEN [exc |-> e, wrote |-> wrote]
         ELSE RunSteps(cfg, o, i + 1, wrote \/ Steps[i] = "emit")

\* download_file, lines 251-303: the first exception raised inside the try
DownloadException(cfg, o) == RunSteps(cfg, o, 1, FALSE).exc

\* variant: an except clause that names TimeoutException alone
Caught_TimeoutOnly(exc) == exc \in {"TimeoutException"}

\* download_file, line 306: the except clause
Caught(exc) == exc \in {"TimeoutException", "NoSuchElementException"}

\* variant: the loop always handing over the first element
NextUrl_First(urls, i) == urls[1]

\* fetch_songs, line 324: the element of iteration i + 1
NextUrl(urls, i) == urls[i + 1]

\* one iteration of the loop of fetch_songs: download_file(driver, song_url)
DownloadFile ==
    /\ pc = "loop"
    /\ idx < Len(song_urls)
    /\ \E o \in TabPages :
        LET url == NextUrl(song_urls, idx)
            r == RunSteps(config, o, 1, FALSE)
            e == DownloadException(config, o)
            title == song_title(o.raw)
            path == DestinationPath(title, docx)
        IN  /\ calls' = calls + 1
            /\ emitted' = IF r.wrote THEN Append(emitted, [url |-> url, path |-> path])
                          ELSE emitted
            /\ files' = IF r.wrote THEN WriteFile(files, path) ELSE files
            /\ failed_songs' = IF Caught(e) THEN Append(failed_songs, url)
                               ELSE failed_songs
            /\ last' = [url |-> url, page |-> o, exc |-> e,
                        result |-> IF e = "none" THEN "emitted"
                                   ELSE IF Caught(e) THEN "failed" ELSE "raised",
                        title |-> IF o.container /\ o.title THEN title ELSE <<>>,
                        path |-> IF r.wrote THEN path ELSE <<>>,
                        wrote |-> r.wrote]
            /\ IF e = "none" \/ Caught(e)
                 THEN /\ idx' = idx + 1
                      /\ pc' = "loop"
                      /\ UNCHANGED err
                 ELSE /\ err' = e
                      /\ pc' = "crashed"
                      /\ UNCHANGED idx
    /\ UNCHANGED <<config, docx, username, prompts, attempts, driver, openCtx,
                   loginObs, playlist, song_urls, discoveries>>
    /\ UNCHANGED fixVars
    /\ UNCHANGED sanVars

\* __main__, lines 341-349: driver.quit(), break, the failure report
Finish ==
    /\ pc = "loop"
    /\ idx = Len(song_urls)
    /\ openCtx' = openCtx \ {driver}
    /\ pc' = "done"
    /\ UNCHANGED <<config, docx, err, username, prompts, attempts, driver, loginObs,
                   playlist, song_urls, idx, calls, failed_songs, emitted, last>>
    /\ UNCHANGED <<files, discoveries>>
    /\ UNCHANGED fixVars
    /\ UNCHANGED sanVars

Next ==
    \/ ModuleStart
    \/ Validate
    \/ Credentials
    \/ Login
    \/ ParseSongLinks
    \/ DownloadFile
    \/ Finish

Spec == Init /\ [][Next]_vars

\* ------------------------------------------------- dumb_docx_space_fixer
\* characters: carriage return, line feed, space, and a letter
Chars == {"CR", "LF", "SP", "a"}

\* regex \s on the characters above
IsSpace(c) == c \in {"CR", "LF", "SP"}

\* r'\r\n\s{4}' matches at position i of t
MatchAt(t, i) ==
    /\ i + 5 <= Len(t)
    /\ t[i] = "CR"
    /\ t[i + 1] = "LF"
    /\ \A k \in 2..5 : IsSpace(t[i + k])

\* variant: the carriage return kept in the replacement
Replacement_CRLF == <<"CR", "LF">>

\* the replacement string of line 230: '\n'
Replacement == <<"LF">>

\* re.sub: leftmost non-overlapping matches, each replaced
RECURSIVE SubFrom(_, _)
SubFrom(t, i) ==
    IF i > Len(t) THEN <<>>
    ELSE IF MatchAt(t, i) THEN Replacement \o SubFrom(t, i + 6)
    ELSE <<t[i]>> \o SubFrom(t, i + 1)

dumb_docx_space_fixer(t) == SubFrom(t, 1)

\* input texts: up to MaxPieces pieces laid end to end
Pieces == { <<"CR">>, <<"LF">>, <<"CR", "LF">>, <<"SP">>,
            <<"SP", "SP", "SP", "SP">>, <<"a">> }

RECURSIVE Concat(_, _)
Concat(ps, i) == IF i > Len(ps) THEN <<>> ELSE ps[i] \o Concat(ps, i + 1)

Texts == {Concat(ps, 1) : ps \in UNION {[1..n -> Pieces] : n \in 0..MaxPieces}}

RunIdle ==
    /\ config = AllKeys
    /\ docx = FALSE
    /\ pc = "off"
    /\ err = "none"
    /\ username = "unset"
    /\ prompts = 0
    /\ attempts = 0
    /\ driver = None
    /\ openCtx = {}
    /\ loginObs = NoLogin
    /\ playlist = NoPlaylist
    /\ song_urls = <<>>
    /\ idx = 0
    /\ calls = 0
    /\ failed_songs = <<>>
    /\ emitted = <<>>
    /\ last = NoLast
    /\ files = {}
    /\ discoveries = 0

InitFix ==
    /\ RunIdle
    /\ SanIdle
    /\ text \in Texts
    /\ fixed = <<>>
    /\ refixed = <<>>
    /\ fpc = "input"

\* the cleanup applied to the rendered text (download_file, lines 275-276)
FixOnce ==
    /\ fpc = "input"
    /\ fixed' = dumb_docx_space_fixer(text)
    /\ fpc' = "once"
    /\ UNCHANGED <<text, refixed>>
    /\ UNCHANGED runVars
    /\ UNCHANGED sanVars

\* the cleanup applied to its own output
FixTwice ==
    /\ fpc = "once"
    /\ refixed' = dumb_docx_space_fixer(fixed)
    /\ fpc' = "twice"
    /\ UNCHANGED <<text, fixed>>
    /\ UNCHANGED runVars
    /\ UNCHANGED sanVars

NextFix == FixOnce \/ FixTwice

SpecFix == InitFix /\ [][NextFix]_vars

\* ------------------------------------------------------- preprocess_html
\* markup is a sequence of tokens: start tags (with or without a class
\* attribute), end tags, and characters "t" (a letter), "NL", "SP"
StartTag(name, c) == [k |-> "open", tag |-> name, cls |-> c]
EndTag(name) == [k |-> "close", tag |-> name, cls |-> FALSE]
Char(c) == [k |-> "char", tag |-> c, cls |-> FALSE]

Text(chars) == [tag |-> "text", id |-> 0, cls |-> FALSE, kids |-> chars]

\* the tree builder appends a finished element to its parent
AppendKid(node, kid) == [node EXCEPT !.kids = Append(@, kid)]

\* character data goes to the string being collected, or starts a new one
AddChar(node, c) ==
    LET n == Len(node.kids) IN
    IF n > 0 /\ node.kids[n].tag = "text"
      THEN [node EXCEPT !.kids[n].kids = Append(@, c)]
      ELSE AppendKid(node, Text(<<c>>))

\* popTag: the innermost open element is closed
PopOne(stack) ==
    LET n == Len(stack) IN
    SubSeq(stack, 1, n - 2) \o <<AppendKid(stack[n - 1], stack[n])>>

\* _popToTag: open elements are closed up to and including the innermost
\* one called name
RECURSIVE PopTo(_, _)
PopTo(stack, name) ==
    IF stack[Len(stack)].tag = name THEN PopOne(stack)
    ELSE PopTo(PopOne(stack), name)

\* end of input: every element still open is closed
RECURSIVE PopAll(_)
PopAll(stack) == IF Len(stack) = 1 THEN stack[1] ELSE PopAll(PopOne(stack))

\* BeautifulSoup(html, 'html.parser'), line 108: an end tag with no open
\* element of its name is dropped
RECURSIVE ParseFrom(_, _, _)
ParseFrom(toks, i, stack) ==
    IF i > Len(toks) THEN PopAll(stack)
    ELSE LET t == toks[i] IN
         CASE t.k = "open" ->
                ParseFrom(toks, i + 1,
                          Append(stack, [tag |-> t.tag, id |-> i, cls |-> t.cls,
                                         kids |-> <<>>]))
           [] t.k = "close" ->
                IF \E j \in 2..Len(stack) : stack[j].tag = t.tag
                  THEN ParseFrom(toks, i + 1, PopTo(stack, t.tag))
                  ELSE ParseFrom(toks, i + 1, stack)
           [] t.k = "char" ->
                ParseFrom(toks, i + 1,
                          [stack EXCEPT ![Len(stack)] = AddChar(@, t.tag)])

Parse(toks) == ParseFrom(toks, 1, <<Root>>)

\* lines 111-112: del tag['class'] on every element
RECURSIVE DelClass(_)
DelClass(node) ==
    IF node.tag = "text" THEN node
    ELSE [node EXCEPT !.cls = FALSE,
                      !.kids = [j \in DOMAIN node.kids |-> DelClass(node.kids[j])]]

\* soup.find_all(name): the ids of the elements called name, in document order
RECURSIVE FindAll(_, _)
RECURSIVE FindAllIn(_, _, _)
FindAll(node, name) ==
    IF node.tag = "text" THEN <<>>
    ELSE (IF node.tag = name THEN <<node.id>> ELSE <<>>)
            \o FindAllIn(node.kids, 1, name)
FindAllIn(kids, j, name) ==
    IF j > Len(kids) THEN <<>>
    ELSE FindAll(kids[j], name) \o FindAllIn(kids, j + 1, name)

\* the element with the given id, as a set of at most one node
RECURSIVE Lookup(_, _)
Lookup(node, id) ==
    IF node.tag = "text" THEN {}
    ELSE IF node.id = id THEN {node}
    ELSE UNION {Lookup(node.kids[j], id) : j \in DOMAIN node.kids}

\* tag.find(name): an element called name anywhere below the tag
RECURSIVE HasDescendant(_, _)
HasDescendant(node, name) ==
    /\ node.tag # "text"
    /\ \E j \in DOMAIN node.kids :
          node.kids[j].tag = name \/ HasDescendant(node.kids[j], name)

\* variant: find('pre', recursive=False), children only
CodeWraps_ChildOnly(node) ==
    \E j \in DOMAIN node.kids : node.kids[j].tag = "pre"

\* line 116: code_tag.find('pre')
CodeWraps(node) == HasDescendant(node, "pre")

\* tag.unwrap(): the element with the id is replaced by its children
RECURSIVE UnwrapIn(_, _)
RECURSIVE Splice(_, _, _)
UnwrapIn(node, id) ==
    IF node.tag = "text" THEN node
    ELSE [node EXCEPT !.kids = Splice(node.kids, 1, id)]
Splice(kids, j, id) ==
    IF j > Len(kids) THEN <<>>
    ELSE (IF kids[j].tag # "text" /\ kids[j].id = id
            THEN kids[j].kids
            ELSE <<UnwrapIn(kids[j], id)>>) \o Splice(kids, j + 1, id)

\* lines 115-117: the loop over the code elements found before it starts
RECURSIVE UnwrapLoop(_, _, _)
UnwrapLoop(tree, ids, i) ==
    IF i > Len(ids) THEN tree
    ELSE LET code_tag == CHOOSE n \in Lookup(tree, ids[i]) : TRUE IN
         UnwrapLoop(IF CodeWraps(code_tag) THEN UnwrapIn(tree, ids[i]) ELSE tree,
                    ids, i + 1)

\* lines 108-117: the tree that is handed to prettify
Sanitized(toks) ==
    LET soup == DelClass(Parse(toks)) IN
    UnwrapLoop(soup, FindAll(soup, "code"), 1)

IsBlank(c) == c \in {"NL", "SP"}

RECURSIVE LTrim(_)
LTrim(cs) == IF cs # <<>> /\ IsBlank(Head(cs)) THEN LTrim(Tail(cs)) ELSE cs

RECURSIVE RTrim(_)
RTrim(cs) ==
    IF cs # <<>> /\ IsBlank(cs[Len(cs)]) THEN RTrim(SubSeq(cs, 1, Len(cs) - 1)) ELSE cs

\* variant: strings are written as they are
StripBlanks_Keep(cs) == cs

\* the strip() of a string that prettify writes on a line of its own
StripBlanks(cs) == RTrim(LTrim(cs))

Chars2Tokens(cs) == [j \in DOMAIN cs |-> Char(cs[j])]

Indent(level) == [j \in 1..level |-> Char("SP")]

\* soup.prettify(), line 120: every element and every string on a line of its
\* own, indented one blank per level, strings stripped and empty ones left
\* out; inside a pre element nothing is added and nothing stripped
RECURSIVE Pretty(_, _, _)
RECURSIVE PrettyKids(_, _, _, _)
Pretty(node, level, inPre) ==
    IF node.tag = "text"
      THEN IF inPre THEN Chars2Tokens(node.kids)
           ELSE LET cs == StripBlanks(node.kids) IN
                IF cs = <<>> THEN <<>>
                ELSE Indent(level) \o Chars2Tokens(cs) \o <<Char("NL")>>
    ELSE IF inPre
      THEN <<StartTag(node.tag, node.cls)>>
             \o PrettyKids(node.kids, 1, level, TRUE)
             \o <<EndTag(node.tag)>>
    ELSE IF node.tag = "pre"
      THEN Indent(level) \o <<StartTag(node.tag, node.cls)>>
             \o PrettyKids(node.kids, 1, level + 1, TRUE)
             \o <<EndTag(node.tag), Char("NL")>>
    ELSE Indent(level) \o <<StartTag(node.tag, node.cls), Char("NL")>>
             \o PrettyKids(node.kids, 1, level + 1, FALSE)
             \o Indent(level) \o <<EndTag(node.tag), Char("NL")>>
PrettyKids(kids, j, level, inPre) ==
    IF j > Len(kids) THEN <<>>
    ELSE Pretty(kids[j], level, inPre) \o PrettyKids(kids, j + 1, level, inPre)

prettify(soup) == PrettyKids(soup.kids, 1, 0, FALSE)

\* preprocess_html(html)
preprocess_html(toks) == prettify(Sanitized(toks))

\* input markup: up to MaxTokens tokens, well nested or not
Tokens == { StartTag("div", FALSE), StartTag("code", FALSE), StartTag("code", TRUE),
            StartTag("pre", FALSE), EndTag("div"), EndTag("code"), EndTag("pre"),
            Char("t"), Char("NL") }

Markups == UNION {[1..n -> Tokens] : n \in 0..MaxTokens}

InitSan ==
    /\ RunIdle
    /\ FixIdle
    /\ markup \in Markups
    /\ dom = Root
    /\ clean = <<>>
    /\ reclean = <<>>
    /\ spc = "input"

\* the sanitizer applied to a page region (download_file, lines 275-276)
SanOnce ==
    /\ spc = "input"
    /\ dom' = Sanitized(markup)
    /\ clean' = preprocess_html(markup)
    /\ spc' = "once"
    /\ UNCHANGED <<markup, reclean>>
    /\ UNCHANGED runVars
    /\ UNCHANGED fixVars

\* the sanitizer applied to its own output
SanTwice ==
    /\ spc = "once"
    /\ reclean' = preprocess_html(clean)
    /\ spc' = "twice"
    /\ UNCHANGED <<markup, dom, clean>>
    /\ UNCHANGED runVars
    /\ UNCHANGED fixVars

NextSan == SanOnce \/ SanTwice

SpecSan == InitSan /\ [][NextSan]_vars

\* ======================================================= checked properties
\* the run has been through parse_song_links
Discovered == driver # None /\ pc \in {"loop", "done", "crashed"}
\* the run is over: completed, or ended by an uncaught exception
RunEnded == pc \in {"done", "crashed"}

\* C1: the length of failed_songs plus the number of emits equals the number
\* of references handed to download_file, and equals the number of discovered
\* references once the run is over.
C1_BatchAccounting ==
    /\ Len(failed_songs) + Len(emitted) = calls
    /\ (Discovered /\ RunEnded) => Len(failed_songs) + Len(emitted) = Len(song_urls)

\* C2: when the emitter fails for an item, the item's reference is the newest
\* entry of failed_songs and the run has not been aborted.
C2_EmitFailureIsolated ==
    (last.exc = "OSError") =>
        /\ pc # "crashed"
        /\ failed_songs # <<>>
        /\ failed_songs[Len(failed_songs)] = last.url

\* a download_file step whose page lacks the tab-body container, the title
\* region or the body region
ExtractionFails ==
    /\ calls' = calls + 1
    /\ (~last'.page.container \/ ~last'.page.title \/ ~last'.page.body)

C4_SessionReleased ==
    /\ RunEnded => openCtx = {}
    /\ (pc \in {"creds", "login"}) => openCtx = {}

\* C5: login returns a driver only if the identity cookie was observed, and
\* then the context is open; when a login control is missing or the cookie
\* never appears it returns None and has quit the context it opened.
C5_AuthenticationResult ==
    /\ driver # None => (loginObs.cookieWait /\ loginObs.cookieCheck)
    /\ (driver # None /\ pc = "fetch") => driver \in openCtx
    /\ (attempts >= 1 /\ ~(loginObs.button /\ loginObs.username /\ loginObs.password
                            /\ loginObs.cookieWait /\ loginObs.cookieCheck))
          => (driver = None /\ <<attempts>> \notin openCtx)

\* C5 witness: all controls were there, the cookie never appeared, login
\* returned None with its context closed
C5_Witness ==
    /\ attempts >= 1
    /\ loginObs.button /\ loginObs.username /\ loginObs.password
    /\ ~loginObs.cookieWait
    /\ driver = None
    /\ openCtx = {}

\* C6 as stated: every login attempt starts with the session discarded and
\* the caller prompted since the previous attempt.
C6_RetryPrompted ==
    pc = "login" => (openCtx = {} /\ prompts = attempts + 1)

\* C6 amended: after a failed login the run is back in the loop with no
\* context open; every attempt starts with credentials taken afresh, by
\* a prompt when config.ini stores none, from config.ini (no prompt) otherwise.
C6_RetryAmended ==
    /\ (attempts >= 1 /\ driver = None) => (pc \in {"creds", "login"} /\ openCtx = {})
    /\ pc = "login" =>
         /\ openCtx = {}
         /\ IF {"Authentication", "Authentication.Username",
                "Authentication.Password"} \subseteq config
              THEN prompts = 0 /\ username = "stored"
              ELSE prompts = attempts + 1 /\ username = "typed"

\* C6 witness: a retry after a failed attempt, the caller prompted again
C6_Witness ==
    /\ pc = "login"
    /\ attempts >= 1
    /\ driver = None
    /\ username = "typed"
    /\ prompts = attempts + 1

\* the keys the settings source must hold (spec section 6)
RequiredKeys == {"Download.location", "Download.docx", "PDFKit.executable_path",
                 "URLs.login_url", "URLs.playlist_url"}

\* C7: with a required key missing the run ends at start-up, before any
\* browsing context is opened.
C7_StartupValidation ==
    ~(RequiredKeys \subseteq config) =>
        /\ attempts = 0
        /\ openCtx = {}
        /\ pc \in {"start", "validate", "crashed"}

\* pat occurs somewhere in h
ContainsPattern(h, pat) ==
    \E i \in 1..Len(h) :
        /\ i + Len(pat) - 1 <= Len(h)
        /\ \A k \in 1..Len(pat) : h[i + k - 1] = pat[k]

\* h begins with pat
StartsWith(h, pat) ==
    /\ Len(pat) <= Len(h)
    /\ \A k \in 1..Len(pat) : h[k] = pat[k]

\* positions of the playlist's anchors that carry an accepted href
KeptBy(Accept(_)) ==
    {i \in DOMAIN playlist.anchors :
        playlist.anchors[i].has_href /\ Accept(playlist.anchors[i].href)}

\* song_urls is exactly the hrefs at the positions K, in document order
ExactlyInOrder(K) ==
    /\ Len(song_urls) = Cardinality(K)
    /\ \A i \in K :
         song_urls[Cardinality({j \in K : j <= i})] = playlist.anchors[i].href

HasAcceptedPrefix(h) ==
    \/ StartsWith(h, TabPattern)
    \/ StartsWith(h, <<"https://">> \o TabPattern)
    \/ StartsWith(h, UserTabPattern)

HasAcceptedPattern(h) ==
    \/ ContainsPattern(h, TabPattern)
    \/ ContainsPattern(h, UserTabPattern)

\* C8 as stated: the result is exactly the hrefs that start with an accepted
\* prefix, in document order.
C8_LinkFilterPrefix ==
    (Discovered /\ playlist.loaded) => ExactlyInOrder(KeptBy(HasAcceptedPrefix))

\* C8 amended: the result is exactly the hrefs that contain one of the two
\* accepted literals anywhere, in document order; every other one is excluded.
C8_LinkFilterAmended ==
    (Discovered /\ playlist.loaded) => ExactlyInOrder(KeptBy(HasAcceptedPattern))

\* C8 witness: of two hyperlinks the first is excluded and the second kept
C8_Witness ==
    /\ Discovered
    /\ playlist.loaded
    /\ Len(playlist.anchors) = 2
    /\ playlist.anchors[1].has_href
    /\ song_urls = <<playlist.anchors[2].href>>

CrlfThenFourBlanks(t) ==
    \E i \in 1..Len(t) :
        /\ i + 5 <= Len(t)
        /\ t[i] = "CR" /\ t[i + 1] = "LF"
        /\ \A k \in 2..5 : t[i + k] \in {"CR", "LF", "SP"}

\* a line break (CRLF or LF) followed by four spaces occurs in t
BreakThenFourSpaces(t) ==
    \E i \in 1..Len(t) :
        /\ i + 4 <= Len(t)
        /\ t[i] = "LF"
        /\ \A k \in 1..4 : t[i + k] = "SP"

\* t has no carriage return directly in front of a CRLF
NoCrBeforeCrlf(t) ==
    \A i \in 1..Len(t) :
        ~(i + 2 <= Len(t) /\ t[i] = "CR" /\ t[i + 1] = "CR" /\ t[i + 2] = "LF")

Separators == {"/", "\\"}

\* the path names a file directly inside the download directory
DirectlyInside(path) ==
    /\ Len(path) >= 3
    /\ path[1] = "DIR"
    /\ path[2] \in Separators
    /\ \A k \in 3..Len(path) : path[k] \notin Separators

\* C11: the derived title of every page holds no path-separator character, and
\* the file written for it lies directly inside the download directory.
C11_TitleSanitized ==
    /\ \A k \in DOMAIN last.title : last.title[k] \notin Separators
    /\ last.wrote => DirectlyInside(last.path)

\* destination paths of the items whose emitter wrote a file
EmittedPaths == {emitted[i].path : i \in DOMAIN emitted}

\* C12 as stated: a completed run leaves as many distinct files as there are
\* items processed without a failure record.
C12_OneFilePerSuccess ==
    pc = "done" => Cardinality(files) = Len(song_urls) - Len(failed_songs)

\* C12 amended: the files of the run are exactly the destination paths of the
\* emitted items, so there are at most as many files as items without a
\* failure record, and as many when no two of them share a destination path.
C12_FilesAmended ==
    /\ files = EmittedPaths
    /\ Cardinality(files) <= Len(emitted)
    /\ pc = "done" => Len(emitted) = Len(song_urls) - Len(failed_songs)
    /\ (\A i, j \in DOMAIN emitted : i # j => emitted[i].path # emitted[j].path)
          => Cardinality(files) = Len(emitted)

\* C12 witness: a completed run in which two different references were
\* emitted to the same destination path
C12_Witness ==
    /\ pc = "done"
    /\ Len(emitted) = 2
    /\ emitted[1].url # emitted[2].url
    /\ emitted[1].path = emitted[2].path
    /\ Cardinality(files) = 1

\* s is t with some elements left out, the order kept
IsSubsequence(s, t) ==
    \E f \in [1..Len(s) -> 1..Len(t)] :
        /\ \A i \in 1..Len(s) : s[i] = t[f[i]]
        /\ \A i, j \in 1..Len(s) : i < j => f[i] < f[j]

C16_Termination ==
    (driver # None /\ RunEnded) =>
        /\ pc = "done"
        /\ discoveries = 1
        /\ calls = Len(song_urls)
        /\ openCtx = {}

\* C17: the playlist page and the tab pages are visited only with an open
\* session whose identity cookie was observed; discovery happens once, after
\* the login and before every extraction.
C17_StageOrdering ==
    /\ discoveries <= 1
    /\ (discoveries >= 1 \/ calls >= 1 \/ pc \in {"fetch", "loop"})
          => (driver # None /\ loginObs.cookieWait /\ loginObs.cookieCheck)
    /\ pc \in {"fetch", "loop"} => driver \in openCtx
    /\ pc = "fetch" => (discoveries = 0 /\ calls = 0)
    /\ calls >= 1 => discoveries = 1
    /\ pc = "done" => discoveries = 1

\* C17 witness: an extraction after discovery, in a session obtained on a
\* retry of the login
C17_Witness ==
    /\ attempts >= 2
    /\ discoveries = 1
    /\ calls >= 1
    /\ pc = "loop"

\* C18: no call of download_file both has its file written and appends its
\* reference to failed_songs.
C18_SuccessXorFailure ==
    [][calls' = calls + 1 =>
          /\ ~(Len(emitted') > Len(emitted) /\ Len(failed_songs') > Len(failed_songs))
          /\ ~(last'.wrote /\ Len(failed_songs') > Len(failed_songs))
          /\ ~(files' # files /\ failed_songs' # failed_songs)]_vars

\* C18 witness: one reference emitted, then one recorded as failed on a page
\* whose body region is missing while the emitter would have succeeded
C18_Witness ==
    /\ Len(emitted) = 1
    /\ Len(failed_songs) = 1
    /\ last.result = "failed"
    /\ ~last.page.body
    /\ last.page.emit
    /\ ~last.wrote

\* C19: at most one browsing context is open at any time, it is the one
\* __main__ holds, and none is open when a login attempt is about to start.
C19_SingleLiveSession ==
    /\ Cardinality(openCtx) <= 1
    /\ openCtx # {} => openCtx = {driver}
    /\ pc \in {"creds", "login"} => openCtx = {}

\* C19 witness: a login that succeeded after a failed attempt, one context open
C19_Witness ==
    /\ attempts >= 2
    /\ driver # None
    /\ openCtx = {driver}

\* ------------------------------------------------------------------ C13
\* C13: sanitizer idempotence: for every markup input x,
\* preprocess_html(preprocess_html(x)) equals preprocess_html(x): the
\* second pass returns the very markup the first pass returned, hence an
\* equal tree
C13_SanitizerIdempotent ==
    spc = "twice" =>
        /\ reclean = clean
        /\ Parse(reclean) = Parse(clean)

\* both passes ran on a markup whose first pass removed a class attribute
\* and unwrapped a code element
C13_Witness ==
    /\ spc = "twice"
    /\ \E j \in DOMAIN markup : markup[j].cls
    /\ FindAll(Parse(markup), "code") # FindAll(dom, "code")
    /\ clean # markup
    /\ reclean = clean

\* ------------------------------------------------------------------ C14
\* the elements of a tree
RECURSIVE Elements(_)
Elements(node) ==
    IF node.tag = "text" THEN {}
    ELSE {node} \cup UNION {Elements(node.kids[j]) : j \in DOMAIN node.kids}

\* a code element with a pre element among its children
CodeOverPre(tree) ==
    \E n \in Elements(tree) :
        /\ n.tag = "code"
        /\ \E j \in DOMAIN n.kids : n.kids[j].tag = "pre"

\* elements and characters of a tree in document order, the elements with
\* an id in gone left out
RECURSIVE DocOrder(_, _)
RECURSIVE DocOrderIn(_, _, _)
DocOrder(node, gone) ==
    IF node.tag = "text" THEN node.kids
    ELSE (IF node.id \in gone THEN <<>> ELSE <<node.id>>)
            \o DocOrderIn(node.kids, 1, gone)
DocOrderIn(kids, j, gone) ==
    IF j > Len(kids) THEN <<>>
    ELSE DocOrder(kids[j], gone) \o DocOrderIn(kids, j + 1, gone)

\* the ids of the code elements the first pass unwrapped
Unwrapped ==
    {n.id : n \in {m \in Elements(Parse(markup)) : m.tag = "code"}}
        \ {n.id : n \in Elements(dom)}

\* the parent of the element with the id, as a set of at most one id
ParentOf(tree, id) ==
    {n.id : n \in {m \in Elements(tree) :
                      \E j \in DOMAIN m.kids :
                          m.kids[j].tag # "text" /\ m.kids[j].id = id}}

\* the ancestors of the element with the id
RECURSIVE Ancestors(_, _)
Ancestors(tree, id) ==
    LET ps == ParentOf(tree, id) IN
    ps \cup UNION {Ancestors(tree, q) : q \in ps \ {0}}

\* C14: for every markup input, code elements nested in code elements
\* included, the tree the sanitizer writes out and the tree read back from its
\* output have no code element with a pre element among its children; every
\* pre element of the input is still there, the remaining elements and
\* characters are in their document order, and a pre element keeps the
\* ancestors that were not unwrapped
C14_SanitizerUnwraps ==
    spc \in {"once", "twice"} =>
        /\ ~CodeOverPre(dom)
        /\ ~CodeOverPre(Parse(clean))
        /\ FindAll(dom, "pre") = FindAll(Parse(markup), "pre")
        /\ DocOrder(dom, {}) = DocOrder(Parse(markup), Unwrapped)
        /\ \A n \in Elements(dom) :
              n.tag = "pre" =>
                  Ancestors(dom, n.id) = Ancestors(Parse(markup), n.id) \ Unwrapped

\* a code element in a code element around a pre element: both code
\* elements are unwrapped and the pre element is a child of the root
C14_Witness ==
    /\ spc = "once"
    /\ \E n \in Elements(Parse(markup)) :
          /\ n.tag = "code"
          /\ \E j \in DOMAIN n.kids :
                /\ n.kids[j].tag = "code"
                /\ \E i \in DOMAIN n.kids[j].kids : n.kids[j].kids[i].tag = "pre"
    /\ FindAll(dom, "code") = <<>>
    /\ \E j \in DOMAIN dom.kids : dom.kids[j].tag = "pre"

================================================================
